---- MODULE Spec2Model ----
(***************************************************************************)
(* html2pptx (src/main.py): one POST request converted to a presentation.  *)
(*                                                                         *)
(* A Python str is a sequence of one-character strings.  A length is an    *)
(* integer number of hundredths of an inch; python-pptx keeps lengths as   *)
(* an integer number of EMU (914400 per inch) and Inches() truncates to    *)
(* that unit, here Inches truncates to a hundredth.  Float expressions are *)
(* evaluated exactly (as a numerator over a denominator) and truncated     *)
(* where the code calls Inches().                                          *)
(***************************************************************************)
EXTENDS Integers, Sequences, FiniteSets, TLC

VARIABLES
    pc,                 \* control point of the request being handled
    doc,                \* the fetched page: [matched, root]
    slides,             \* html_to_slides' result: a list of lists of str
    cur,                \* slides_to_pptx: number of slides handed to fill_slide
    prs,                \* the Presentation: the slides added so far
    column_layout,      \* fill_slide locals, as the last call that added a slide set them
    images_array,
    text_array,
    images_heights_inches,
    max_image_height_inches,
    error,              \* the exception that ended the request, "" if none
    response            \* what do_POST wrote to the client

vars == <<pc, doc, slides, cur, prs, column_layout, images_array, text_array,
          images_heights_inches, max_image_height_inches, error, response>>

----------------------------------------------------------------------------
(* Bounds of the model.                                                    *)

MaxNodes == 5           \* nodes of a slide element's subtree (tree documents)
MaxAtoms == 4           \* children of a slide element (flat documents)
MaxSlides == 3          \* children of the selected element (multi-slide documents)

----------------------------------------------------------------------------
(* Program constants, lengths in hundredths of an inch.                    *)

SHORT_TEXT_LIMIT_CHARS == 75
TITLE_FONT_PT == 75
SLIDE_WIDTH_INCHES == 1000
SLIDE_HEIGHT_INCHES == 750
SLIDE_SMALL_MARGIN_INCHES == 25
COLUMN_MARGIN_INCHES == 10
HEIGHT_MARGIN_INCHES == 10

----------------------------------------------------------------------------
(* Strings.                                                                *)

Str(n, c) == [i \in 1..n |-> c]

Whitespace == {" ", "\n", "\t"}

RECURSIVE LStrip(_)
LStrip(s) == IF s # <<>> /\ Head(s) \in Whitespace THEN LStrip(Tail(s)) ELSE s

RECURSIVE RStrip(_)
RStrip(s) ==
    IF s # <<>> /\ s[Len(s)] \in Whitespace
    THEN RStrip(SubSeq(s, 1, Len(s) - 1))
    ELSE s

\* str.strip()
Strip(s) == RStrip(LStrip(s))

StartsWith(s, p) == Len(s) >= Len(p) /\ SubSeq(s, 1, Len(p)) = p

\* " ".join(strs)
RECURSIVE Join(_)
Join(strs) ==
    IF strs = <<>> THEN <<>>
    ELSE IF Len(strs) = 1 THEN strs[1]
    ELSE strs[1] \o <<" ">> \o Join(Tail(strs))

\* the literal "img_src:"
IMG_PREFIX == <<"i", "m", "g", "_", "s", "r", "c", ":">>

\* the literal "[if mso | IE]"
MSO_MARKER == <<"[", "i", "f", " ", "m", "s", "o", " ", "|", " ", "I", "E", "]">>

\* the literal "empty"
EMPTY_IMAGE == <<"e", "m", "p", "t", "y">>

\* re.match("^\\[if mso \\| IE\\].*", s) is not None
MarkerMatch(s) == StartsWith(s, MSO_MARKER)

\* re.search("^img_src:(.*)$", s): "." matches no newline and "$" matches at
\* the end or before a newline that ends the string.  <<>> when there is no
\* match, else <<group(1)>>.
ImgSearch(s) ==
    IF ~StartsWith(s, IMG_PREFIX) THEN <<>>
    ELSE LET rest == SubSeq(s, Len(IMG_PREFIX) + 1, Len(s))
             nl == {i \in 1..Len(rest) : rest[i] = "\n"}
         IN  IF nl = {} THEN <<rest>>
             ELSE IF nl = {Len(rest)} THEN <<SubSeq(rest, 1, Len(rest) - 1)>>
             ELSE <<>>

----------------------------------------------------------------------------
(* The parsed page.  A node is a NavigableString (name None; a comment is  *)
(* one too) or a Tag.                                                      *)

None == "None"

StringNode(s) == [name |-> None, text |-> s, src |-> <<>>, contents |-> <<>>]
Tag(n, kids) == [name |-> n, text |-> <<>>, src |-> <<>>, contents |-> kids]
Img(s) == [name |-> "img", text |-> <<>>, src |-> s, contents |-> <<>>]

\* Tag.string: the single NavigableString below a chain of only children
\* (<<>> for None, else <<the string>>)
RECURSIVE TagString(_)
TagString(tag) ==
    IF Len(tag.contents) # 1 THEN <<>>
    ELSE IF tag.contents[1].name = None THEN <<tag.contents[1].text>>
    ELSE TagString(tag.contents[1])

\* tag.find_all(string=True, recursive=False)
RECURSIVE DirectStrings(_)
DirectStrings(kids) ==
    IF kids = <<>> THEN <<>>
    ELSE (IF Head(kids).name = None THEN <<Head(kids).text>> ELSE <<>>)
         \o DirectStrings(Tail(kids))

\* tag.find_all(string=True, recursive=True), in document order
RECURSIVE RecursiveStrings(_)
RecursiveStrings(kids) ==
    IF kids = <<>> THEN <<>>
    ELSE (IF Head(kids).name = None THEN <<Head(kids).text>>
          ELSE RecursiveStrings(Head(kids).contents))
         \o RecursiveStrings(Tail(kids))

\* the two sanitizing loops of parse_tag_contents
RECURSIVE Sanitized(_)
Sanitized(strs) ==
    IF strs = <<>> THEN <<>>
    ELSE LET stripped == Strip(Head(strs))
             sanitized_string == IF MarkerMatch(stripped) THEN <<>> ELSE stripped
         IN  (IF sanitized_string # <<>> THEN <<sanitized_string>> ELSE <<>>)
             \o Sanitized(Tail(strs))

RECURSIVE parse_tag_contents(_)

\* faulty variant: the merged text made of the direct strings only
ChildData_DirectOnly(children_content_tag) ==
    IF children_content_tag.name = None THEN <<>>
    ELSE IF children_content_tag.name = "img"
    THEN <<IMG_PREFIX \o children_content_tag.src>>
    ELSE IF TagString(children_content_tag) # <<>>
    THEN LET s == Strip(TagString(children_content_tag)[1])
         IN  IF s # <<>> THEN <<s>> ELSE <<>>
    ELSE LET sanitized_direct_tag_strings ==
                 Sanitized(DirectStrings(children_content_tag.contents))
         IN  IF Len(sanitized_direct_tag_strings) > 0
             THEN <<Join(sanitized_direct_tag_strings)>>
             ELSE parse_tag_contents(children_content_tag)

\* one iteration of parse_tag_contents' loop: what the child appends to tag_data
ChildData(children_content_tag) ==
    IF children_content_tag.name = None THEN <<>>
    ELSE IF children_content_tag.name = "img"
    THEN <<IMG_PREFIX \o children_content_tag.src>>
    ELSE IF TagString(children_content_tag) # <<>>
    THEN LET s == Strip(TagString(children_content_tag)[1])
         IN  IF s # <<>> THEN <<s>> ELSE <<>>
    ELSE LET sanitized_direct_tag_strings ==
                 Sanitized(DirectStrings(children_content_tag.contents))
             sanitized_recursive_tag_strings ==
                 Sanitized(RecursiveStrings(children_content_tag.contents))
         IN  IF Len(sanitized_direct_tag_strings) > 0
             THEN <<Join(sanitized_recursive_tag_strings)>>
             ELSE parse_tag_contents(children_content_tag)

RECURSIVE TagDataFrom(_)
TagDataFrom(kids) ==
    IF kids = <<>> THEN <<>>
    ELSE ChildData(Head(kids)) \o TagDataFrom(Tail(kids))

parse_tag_contents(tag) == TagDataFrom(tag.contents)

html_to_slide(parent_tag) == parse_tag_contents(parent_tag)

\* html_to_slides' loop over useful_content[0].children
RECURSIVE SlidesFrom(_)
SlidesFrom(kids) ==
    IF kids = <<>> THEN <<>>
    ELSE (IF Head(kids).name # None THEN <<html_to_slide(Head(kids))>> ELSE <<>>)
         \o SlidesFrom(Tail(kids))

----------------------------------------------------------------------------
(* fill_slide: classification and partition.                               *)

\* the first loop of fill_slide: image_count
RECURSIVE ImageCount(_)
ImageCount(slide) ==
    IF slide = <<>> THEN 0
    ELSE (IF ImgSearch(Head(slide)) # <<>> THEN 1 ELSE 0) + ImageCount(Tail(slide))

\* the first loop of fill_slide: max_chars_in_strings, from running value m
RECURSIVE MaxChars(_, _)
MaxChars(slide, m) ==
    IF slide = <<>> THEN m
    ELSE IF ImgSearch(Head(slide)) = <<>> /\ Len(Head(slide)) > m
    THEN MaxChars(Tail(slide), Len(Head(slide)))
    ELSE MaxChars(Tail(slide), m)

\* faulty variant: a slide without image taken as empty
EmptySlide_NoImage(slide) == ImageCount(slide) = 0

EmptySlide(slide) == ImageCount(slide) = 0 /\ MaxChars(slide, 0) = 0

\* faulty variant: the limit taken as exclusive
WithShortTexts_Exclusive(max_chars_in_strings) ==
    max_chars_in_strings # 0 /\ max_chars_in_strings < SHORT_TEXT_LIMIT_CHARS

WithShortTexts(max_chars_in_strings) ==
    max_chars_in_strings # 0 /\ max_chars_in_strings <= SHORT_TEXT_LIMIT_CHARS

ColumnLayout(slide) ==
    LET with_multiple_images == ImageCount(slide) > 1
    IN  with_multiple_images /\ WithShortTexts(MaxChars(slide, 0))

\* faulty variant: no placeholder for the text that precedes the first image
ColumnStep_NoPlaceholder(acc, slide_data) ==
    LET image_found == ImgSearch(slide_data)
    IN  IF image_found # <<>>
        THEN IF Len(acc.images_array) > 0
             THEN [images_array |-> Append(acc.images_array, image_found[1]),
                   text_array |-> Append(acc.text_array, acc.column_text_array),
                   column_text_array |-> <<>>]
             ELSE [acc EXCEPT !.images_array = Append(acc.images_array, image_found[1])]
        ELSE [acc EXCEPT !.column_text_array = Append(acc.column_text_array, slide_data)]

\* one iteration of the partition loop in a column layout
ColumnStep(acc, slide_data) ==
    LET image_found == ImgSearch(slide_data)
    IN  IF image_found # <<>>
        THEN IF Len(acc.images_array) = 0 /\ Len(acc.column_text_array) > 0
             THEN [images_array |-> <<EMPTY_IMAGE, image_found[1]>>,
                   text_array |-> Append(acc.text_array, acc.column_text_array),
                   column_text_array |-> <<>>]
             ELSE IF Len(acc.images_array) > 0
             THEN [images_array |-> Append(acc.images_array, image_found[1]),
                   text_array |-> Append(acc.text_array, acc.column_text_array),
                   column_text_array |-> <<>>]
             ELSE [acc EXCEPT !.images_array = Append(acc.images_array, image_found[1])]
        ELSE [acc EXCEPT !.column_text_array = Append(acc.column_text_array, slide_data)]

\* one iteration of the partition loop otherwise
GenericStep(acc, slide_data) ==
    LET image_found == ImgSearch(slide_data)
    IN  IF image_found # <<>>
        THEN [acc EXCEPT !.images_array = Append(acc.images_array, image_found[1])]
        ELSE [acc EXCEPT !.column_text_array = Append(acc.column_text_array, slide_data)]

RECURSIVE PartitionLoop(_, _, _)
PartitionLoop(slide, column, acc) ==
    IF slide = <<>> THEN acc
    ELSE PartitionLoop(Tail(slide), column,
                       IF column THEN ColumnStep(acc, Head(slide))
                       ELSE GenericStep(acc, Head(slide)))

\* the partition loop and the flush that follows it
Partition(slide, column) ==
    LET acc == PartitionLoop(slide, column,
                             [images_array |-> <<>>, text_array |-> <<>>,
                              column_text_array |-> <<>>])
    IN  [images_array |-> acc.images_array,
         text_array |->
             IF column THEN Append(acc.text_array, acc.column_text_array)
             ELSE IF Len(acc.column_text_array) > 0
             THEN Append(acc.text_array, acc.column_text_array)
             ELSE acc.text_array]

----------------------------------------------------------------------------
(* fill_slide: geometry.                                                   *)

\* int(): truncation toward zero of n/d, d > 0
Trunc(n, d) == IF n >= 0 THEN n \div d ELSE -((-n) \div d)

\* Inches(n/d)
Inches(n, d) == Trunc(n, d)

AvailableSlideWidth(n_images) ==
    SLIDE_WIDTH_INCHES - 2 * SLIDE_SMALL_MARGIN_INCHES
        - (n_images - 1) * COLUMN_MARGIN_INCHES

\* column_width_inches is AvailableSlideWidth(n) / ColumnDivisor(n)
ColumnDivisor(n_images) == IF n_images > 0 THEN n_images ELSE 1

\* faulty variant: the gaps between the columns forgotten
ColumnLeft_NoGap(index, n_images) ==
    LET d == ColumnDivisor(n_images)
    IN  Inches(SLIDE_SMALL_MARGIN_INCHES * d + index * AvailableSlideWidth(n_images), d)

\* Inches(SLIDE_SMALL_MARGIN_INCHES + index*column_width_inches + index*COLUMN_MARGIN_INCHES)
ColumnLeft(index, n_images) ==
    LET d == ColumnDivisor(n_images)
    IN  Inches(SLIDE_SMALL_MARGIN_INCHES * d + index * AvailableSlideWidth(n_images)
                   + index * COLUMN_MARGIN_INCHES * d, d)

\* Inches(column_width_inches)
ColumnWidth(n_images) == Inches(AvailableSlideWidth(n_images), ColumnDivisor(n_images))

\* the first resize: the width bound (ratio is native.width / native.height)
ClampWidth(box, native) ==
    IF box.width > SLIDE_WIDTH_INCHES - 2 * SLIDE_SMALL_MARGIN_INCHES
    THEN LET w == SLIDE_WIDTH_INCHES - 2 * SLIDE_SMALL_MARGIN_INCHES
         IN  [width |-> w, height |-> Inches(w * native.height, native.width)]
    ELSE box

\* faulty variant: the height bound applied without rescaling the width
ClampHeight_KeepsWidth(box, native) ==
    IF box.height > SLIDE_HEIGHT_INCHES - 2 * SLIDE_SMALL_MARGIN_INCHES
    THEN [box EXCEPT !.height = SLIDE_HEIGHT_INCHES - 2 * SLIDE_SMALL_MARGIN_INCHES]
    ELSE box

\* the second resize: the height bound
ClampHeight(box, native) ==
    IF box.height > SLIDE_HEIGHT_INCHES - 2 * SLIDE_SMALL_MARGIN_INCHES
    THEN LET h == SLIDE_HEIGHT_INCHES - 2 * SLIDE_SMALL_MARGIN_INCHES
         IN  [width |-> Inches(h * native.width, native.height), height |-> h]
    ELSE box

Resize(native) == ClampHeight(ClampWidth(native, native), native)

\* left of the only image of a slide
CenteredLeft(width) ==
    IF SLIDE_WIDTH_INCHES - width < 2 * SLIDE_SMALL_MARGIN_INCHES
    THEN SLIDE_SMALL_MARGIN_INCHES
    ELSE Inches(SLIDE_WIDTH_INCHES - width, 2)

\* top of the only image of a slide with no text column
CenteredTop(height) ==
    IF SLIDE_HEIGHT_INCHES - height < 2 * SLIDE_SMALL_MARGIN_INCHES
    THEN SLIDE_SMALL_MARGIN_INCHES
    ELSE Inches(SLIDE_HEIGHT_INCHES - height, 2)

\* the picture one iteration of the image loop adds, for the size the fetched
\* image has
Picture(index, image_link, native, n_images, n_columns) ==
    LET box == Resize(native)
    IN  [index |-> index, image_link |-> image_link, native |-> native,
         left |-> IF n_images = 1 THEN CenteredLeft(box.width)
                  ELSE ColumnLeft(index, n_images),
         top |-> IF n_images = 1 /\ n_columns = 0 THEN CenteredTop(box.height)
                 ELSE SLIDE_SMALL_MARGIN_INCHES,
         width |-> box.width, height |-> box.height]

\* text_frame.clear() leaves one empty paragraph
EmptyParagraph == [text |-> <<>>, alignment |-> None, size |-> 0]

TitleFormat(paragraph, is_title) ==
    IF is_title
    THEN [paragraph EXCEPT !.alignment = "CENTER", !.size = TITLE_FONT_PT]
    ELSE paragraph

\* the loop over the strings of a text column
RECURSIVE AddParagraphs(_, _, _)
AddParagraphs(paragraphs, text_column, is_title) ==
    IF text_column = <<>> THEN paragraphs
    ELSE LET text == Head(text_column)
             filled == IF paragraphs[1].text = <<>>
                       THEN [paragraphs EXCEPT ![1] =
                                [TitleFormat(paragraphs[1], is_title) EXCEPT !.text = text]]
                       ELSE Append(paragraphs,
                                [TitleFormat(EmptyParagraph, is_title) EXCEPT !.text = text])
         IN  AddParagraphs(filled, Tail(text_column), is_title)

\* faulty variant: the title decided per column, whatever the images
IsTitle_PerColumn(images, texts, text_column) ==
    Len(texts) = 1 /\ Len(text_column) = 1

IsTitle(images, texts, text_column) ==
    Len(images) = 0 /\ Len(texts) = 1 /\ Len(text_column) = 1

\* top of a text column below an image of the given height
TextTop(image_height) ==
    SLIDE_SMALL_MARGIN_INCHES + image_height + HEIGHT_MARGIN_INCHES

\* height of a text column below an image of the given height
TextHeight(image_height) ==
    SLIDE_HEIGHT_INCHES - 2 * SLIDE_SMALL_MARGIN_INCHES - image_height
        - HEIGHT_MARGIN_INCHES

\* one iteration of the loop over text_array: the text box of column index
TextBox(index, column, images, texts, heights, max_height) ==
    LET n == Len(images)
    IN  [left |-> IF column THEN ColumnLeft(index, n) ELSE SLIDE_SMALL_MARGIN_INCHES,
         width |-> IF column THEN ColumnWidth(n)
                   ELSE SLIDE_WIDTH_INCHES - 2 * SLIDE_SMALL_MARGIN_INCHES,
         top |-> IF column THEN TextTop(heights[index + 1])
                 ELSE IF n > 0 THEN TextTop(max_height)
                 ELSE SLIDE_SMALL_MARGIN_INCHES,
         height |-> IF column THEN TextHeight(heights[index + 1])
                    ELSE IF n > 0 THEN TextHeight(max_height)
                    ELSE SLIDE_HEIGHT_INCHES - 2 * SLIDE_SMALL_MARGIN_INCHES,
         vertical_anchor |-> IF column THEN "TOP" ELSE "MIDDLE",
         paragraphs |-> AddParagraphs(<<EmptyParagraph>>, texts[index + 1],
                                      IsTitle(images, texts, texts[index + 1]))]

----------------------------------------------------------------------------
(* The pages and images a request may meet.                                *)

HELLO == <<"H", "e", "l", "l", "o">>
WORLD == <<" ", "w", "o", "r", "l", "d">>
BLANK == <<"\n", " ">>
COMMENT == <<"\n">> \o MSO_MARKER \o <<">">>
OK == <<"o", "k">>
URL_A == <<"a">>
URL_B == <<"b">>
URL_BROKEN == <<"a", "\n", "b">>

\* what a node without children can be
Leaves ==
    {StringNode(HELLO), StringNode(WORLD), StringNode(BLANK), StringNode(COMMENT),
     Img(URL_A), Tag("div", <<>>)}

\* the forests of exactly m nodes; a tree of n nodes is a leaf or an element
\* over a forest of n - 1 nodes
ForestsOfSize[m \in 0..MaxNodes] ==
    IF m = 0 THEN {<<>>}
    ELSE UNION {{<<t>> \o f :
                     t \in (IF k = 1 THEN Leaves
                            ELSE {Tag("div", g) : g \in ForestsOfSize[k - 1]}),
                     f \in ForestsOfSize[m - k]} :
                k \in 1..m}

SeqsUpTo(S, n) == UNION {[1..k -> S] : k \in 0..n}

Page(kids) == [matched |-> TRUE, root |-> Tag("div", kids)]

\* the selector matches nothing
NoMatchPage == [matched |-> FALSE, root |-> Tag("div", <<>>)]

\* one slide element, any subtree of at most n nodes
TreePages(n) ==
    {Page(<<Tag("div", f)>>) : f \in UNION {ForestsOfSize[m] : m \in 0..(n - 1)}}

Paragraph(s) == Tag("p", <<StringNode(s)>>)

\* two images, an image whose url holds a line break, a text of 75 characters
\* and one of 76
AtomElements ==
    {Img(URL_A), Img(URL_B), Img(URL_BROKEN),
     Paragraph(Str(SHORT_TEXT_LIMIT_CHARS, "x")),
     Paragraph(Str(SHORT_TEXT_LIMIT_CHARS + 1, "x"))}

\* one slide element, at most n images and paragraphs in any order
FlatPages(n) == {Page(<<Tag("div", kids)>>) : kids \in SeqsUpTo(AtomElements, n)}

SlideElements ==
    {StringNode(BLANK), Tag("div", <<>>), Tag("div", <<StringNode(BLANK)>>),
     Tag("div", <<Paragraph(HELLO)>>), Tag("div", <<Img(URL_A)>>),
     Tag("div", <<Img(URL_A), Paragraph(OK)>>)}

\* at most n children of the selected element
MultiPages(n) == {Page(kids) : kids \in SeqsUpTo(SlideElements, n)}

\* the intrinsic size an image may have: within both bounds, too wide, too
\* tall, too wide and then too tall
NativeSizes ==
    {[width |-> 300, height |-> 200], [width |-> 1900, height |-> 100],
     [width |-> 200, height |-> 1400], [width |-> 1900, height |-> 1500]}

----------------------------------------------------------------------------
(* The request.                                                            *)

NoResponse == [status |-> 0, body |-> <<>>]

InitWith(pages) ==
    /\ pc = "html_to_pptx"
    /\ doc \in pages
    /\ slides = <<>>
    /\ cur = 0
    /\ prs = <<>>
    /\ column_layout = FALSE
    /\ images_array = <<>>
    /\ text_array = <<>>
    /\ images_heights_inches = <<>>
    /\ max_image_height_inches = 0
    /\ error = ""
    /\ response = NoResponse

fill_locals ==
    <<column_layout, images_array, text_array, images_heights_inches,
      max_image_height_inches>>

\* an exception nobody catches: do_POST writes nothing
Raise(e) ==
    /\ pc' = "failed"
    /\ error' = e
    /\ UNCHANGED <<doc, slides, cur, prs, fill_locals, response>>

\* html_to_pptx: requests.get(url) returns the page
FetchSource ==
    /\ pc = "html_to_pptx"
    /\ pc' = "html_to_slides"
    /\ UNCHANGED <<doc, slides, cur, prs, fill_locals, error, response>>

\* html_to_pptx: requests.get(url) raises
SourceFetchFails ==
    /\ pc = "html_to_pptx"
    /\ Raise("RequestException")

\* html_to_slides; useful_content[0] raises IndexError on an empty match list
HtmlToSlides ==
    /\ pc = "html_to_slides"
    /\ IF doc.matched
       THEN /\ slides' = SlidesFrom(doc.root.contents)
            /\ pc' = "slides_to_pptx"
            /\ UNCHANGED <<doc, cur, prs, fill_locals, error, response>>
       ELSE Raise("IndexError")

\* slides_to_pptx calls fill_slide on the next slide: up to the image loop
FillSlideBegin ==
    /\ pc = "slides_to_pptx"
    /\ cur < Len(slides)
    /\ cur' = cur + 1
    /\ LET slide == slides[cur + 1]
           parts == Partition(slide, ColumnLayout(slide))
       IN  IF EmptySlide(slide)
           THEN UNCHANGED <<pc, prs, fill_locals>>
           ELSE /\ pc' = "fill_slide"
                /\ prs' = Append(prs, [source |-> cur + 1, pictures |-> <<>>,
                                       textboxes |-> <<>>])
                /\ column_layout' = ColumnLayout(slide)
                /\ images_array' = parts.images_array
                /\ text_array' = parts.text_array
                /\ images_heights_inches' = <<>>
                /\ max_image_height_inches' = 0
    /\ UNCHANGED <<doc, slides, error, response>>

\* one iteration of the image loop
AddPicture ==
    /\ pc = "fill_slide"
    /\ Len(images_heights_inches) < Len(images_array)
    /\ LET index == Len(images_heights_inches)
           image_link == images_array[index + 1]
       IN  IF image_link = EMPTY_IMAGE
           THEN /\ images_heights_inches' = Append(images_heights_inches, 0)
                /\ UNCHANGED <<prs, max_image_height_inches>>
           ELSE \E native \in NativeSizes :
                   LET image_box == Picture(index, image_link, native,
                                            Len(images_array), Len(text_array))
                   IN  /\ prs' = [prs EXCEPT ![Len(prs)].pictures = Append(@, image_box)]
                       /\ images_heights_inches' =
                              Append(images_heights_inches, image_box.height)
                       /\ max_image_height_inches' =
                              IF image_box.height > max_image_height_inches
                              THEN image_box.height
                              ELSE max_image_height_inches
    /\ UNCHANGED <<pc, doc, slides, cur, column_layout, images_array, text_array,
                   error, response>>

\* requests.get(image_link) or add_picture raises
ImageFetchFails ==
    /\ pc = "fill_slide"
    /\ Len(images_heights_inches) < Len(images_array)
    /\ images_array[Len(images_heights_inches) + 1] # EMPTY_IMAGE
    /\ Raise("ImageFetchError")

\* the loop over text_array, and fill_slide returns
AddTextBoxes ==
    /\ pc = "fill_slide"
    /\ Len(images_heights_inches) = Len(images_array)
    /\ prs' = [prs EXCEPT ![Len(prs)].textboxes =
                  [i \in 1..Len(text_array) |->
                      TextBox(i - 1, column_layout, images_array, text_array,
                              images_heights_inches, max_image_height_inches)]]
    /\ pc' = "slides_to_pptx"
    /\ UNCHANGED <<doc, slides, cur, fill_locals, error, response>>

\* slides_to_pptx saves the presentation and returns
SavePresentation ==
    /\ pc = "slides_to_pptx"
    /\ cur = Len(slides)
    /\ pc' = "respond"
    /\ UNCHANGED <<doc, slides, cur, prs, fill_locals, error, response>>

\* do_POST sends the headers and the presentation
SendResponse ==
    /\ pc = "respond"
    /\ response' = [status |-> 200, body |-> prs]
    /\ pc' = "done"
    /\ UNCHANGED <<doc, slides, cur, prs, fill_locals, error>>

Next ==
    \/ FetchSource
    \/ SourceFetchFails
    \/ HtmlToSlides
    \/ FillSlideBegin
    \/ AddPicture
    \/ ImageFetchFails
    \/ AddTextBoxes
    \/ SavePresentation
    \/ SendResponse

Init == InitWith(MultiPages(MaxSlides) \cup {NoMatchPage})
Spec == Init /\ [][Next]_vars

InitExtract == InitWith(TreePages(MaxNodes) \cup {NoMatchPage})
SpecExtract == InitExtract /\ [][Next]_vars

InitSlides == InitWith(FlatPages(MaxAtoms) \cup {NoMatchPage})
SpecSlides == InitSlides /\ [][Next]_vars

----------------------------------------------------------------------------
(* What the claims speak of, said without the loops of the code.           *)

\* the atom is an image reference: "img_src:" and a url on one line
IsImageAtom(atom) == ImgSearch(atom) # <<>>

ImagePositions(slide) == {i \in DOMAIN slide : IsImageAtom(slide[i])}
TextPositions(slide) == DOMAIN slide \ ImagePositions(slide)

\* length of the longest single text atom, 0 when there is none
LongestText(slide) ==
    IF TextPositions(slide) = {} THEN 0
    ELSE CHOOSE n \in {Len(slide[i]) : i \in TextPositions(slide)} :
             \A i \in TextPositions(slide) : Len(slide[i]) <= n

Degenerate(slide) == ImagePositions(slide) = {} /\ LongestText(slide) = 0

\* the elements of a set of integers in increasing order
RECURSIVE Ascending(_)
Ascending(S) ==
    IF S = {} THEN <<>>
    ELSE LET least == CHOOSE m \in S : \A x \in S : m <= x
         IN  <<least>> \o Ascending(S \ {least})

\* the slide whose fill_slide call set the locals is the last one added
Filling == pc = "fill_slide"
Filled == pc \in {"slides_to_pptx", "respond", "done"} /\ prs # <<>>
              /\ prs[Len(prs)].source = cur
CurrentSlide == slides[prs[Len(prs)].source]

\* the slides of prs whose fill_slide call has returned
Complete == IF pc \in {"fill_slide", "failed"} THEN Len(prs) - 1 ELSE Len(prs)

----------------------------------------------------------------------------
\* the positions of the image atoms, in order, after position 0 when a text
\* atom precedes them all
C1_Slots(slide) ==
    LET P == ImagePositions(slide)
    IN  Ascending(IF \E i \in TextPositions(slide) : \A j \in P : i < j
                  THEN P \cup {0} ELSE P)

\* C1: in a column layout the partition leaves as many text columns as image
\* slots, slot i holds the url of the i-th image (a leading placeholder when
\* text precedes the first image) and text column i holds exactly the text
\* atoms between slot i and slot i+1, in order.
C1_ColumnPartitionAligned ==
    (Filling /\ column_layout) =>
        LET slide == CurrentSlide
            slots == C1_Slots(slide)
            n == Len(slots)
        IN  /\ Len(images_array) = Len(text_array)
            /\ Len(images_array) = n
            /\ \A i \in 1..n :
                  /\ images_array[i] =
                         IF slots[i] = 0 THEN EMPTY_IMAGE ELSE ImgSearch(slide[slots[i]])[1]
                  /\ text_array[i] =
                         SubSeq(slide, slots[i] + 1,
                                IF i < n THEN slots[i + 1] - 1 ELSE Len(slide))

\* text before the first image, two consecutive images and a trailing image
C1_Witness ==
    /\ Filling /\ column_layout
    /\ Len(images_array) = 3
    /\ images_array[1] = EMPTY_IMAGE
    /\ text_array[1] # <<>>
    /\ text_array[2] = <<>>
    /\ text_array[3] = <<>>

C6_WithinOneUnit(box, native) ==
    LET cross == box.width * native.height - box.height * native.width
        limit == IF native.width > native.height THEN native.width ELSE native.height
    IN  -limit <= cross /\ cross <= limit

\* C6: after the two resizes a picture is at most 9.5 wide and 7.0 high, its
\* width to its height is the native ratio up to the rounding of one unit, and
\* a picture within both bounds keeps its native size.
C6_ClampKeepsBoundsAndRatio ==
    \A k \in DOMAIN prs : \A i \in DOMAIN prs[k].pictures :
        LET box == prs[k].pictures[i]
        IN  /\ box.width <= 950
            /\ box.height <= 700
            /\ C6_WithinOneUnit(box, box.native)
            /\ (box.native.width <= 950 /\ box.native.height <= 700) =>
                   (box.width = box.native.width /\ box.height = box.native.height)

\* an image 19 by 15: the width bound leaves it 7.5 high, the height bound then
\* applies to the same image
C6_Witness ==
    \E k \in DOMAIN prs : \E i \in DOMAIN prs[k].pictures :
        LET box == prs[k].pictures[i]
        IN  /\ box.native.width = 1900 /\ box.native.height = 1500
            /\ box.height = 700
            /\ box.width = 886

\* C7 as stated: in a column layout every image is columnWidth wide.
C7_ImagesAreColumnWide ==
    (Filled /\ column_layout) =>
        \A i \in DOMAIN prs[Len(prs)].pictures :
            prs[Len(prs)].pictures[i].width * Len(images_array)
                = 950 - (Len(images_array) - 1) * 10

\* margin + i*columnWidth + i*gap for n slots
C7_SlotLeft(i, n) == (25 * n + i * (950 - (n - 1) * 10) + i * 10 * n) \div n

\* C7 amended: in a column layout with n image slots the image of slot i is at
\* top = margin and left = margin + i*columnWidth + i*gap, with columnWidth =
\* (slideWidth - 2*margin - (n-1)*gap)/n, and keeps the width the resizes gave
\* it; text column i has the same left, is columnWidth wide and starts at
\* margin + (height of image i, 0 for a placeholder) + verticalGap.
C7_ColumnGeometry ==
    (Filled /\ column_layout) =>
        LET out == prs[Len(prs)]
            n == Len(images_array)
            real == {i \in 1..n : images_array[i] # EMPTY_IMAGE}
            pictureOf(i) == CHOOSE p \in {out.pictures[j] : j \in DOMAIN out.pictures} :
                                p.index = i - 1
        IN  /\ Len(out.pictures) = Cardinality(real)
            /\ Len(out.textboxes) = n
            /\ \A i \in real :
                  /\ \E j \in DOMAIN out.pictures : out.pictures[j].index = i - 1
                  /\ pictureOf(i).top = 25
                  /\ pictureOf(i).left = C7_SlotLeft(i - 1, n)
                  /\ pictureOf(i).image_link = images_array[i]
                  /\ pictureOf(i).width <= 950
                  /\ (pictureOf(i).native.width <= 950 /\ pictureOf(i).native.height <= 700)
                         => pictureOf(i).width = pictureOf(i).native.width
            /\ \A i \in 1..n :
                  /\ out.textboxes[i].left = C7_SlotLeft(i - 1, n)
                  /\ out.textboxes[i].width = (950 - (n - 1) * 10) \div n
                  /\ n = 2 => out.textboxes[i].width = 470
                  /\ out.textboxes[i].top =
                         25 + (IF i \in real THEN pictureOf(i).height ELSE 0) + 10

\* a slide [Image, Text, Image, Text], the first image 3 wide and 2 high, the
\* second 9.5 wide: neither is 4.7 wide, both text columns are
C7_Witness ==
    /\ Filled /\ column_layout
    /\ pc = "done"
    /\ Len(CurrentSlide) = 4
    /\ ImagePositions(CurrentSlide) = {1, 3}
    /\ Len(prs[Len(prs)].pictures) = 2
    /\ prs[Len(prs)].pictures[1].width = 300
    /\ prs[Len(prs)].pictures[2].width = 950
    /\ prs[Len(prs)].pictures[2].left = 505
    /\ prs[Len(prs)].textboxes[2].left = 505
    /\ prs[Len(prs)].textboxes[2].width = 470
    /\ prs[Len(prs)].textboxes[1].top = 235

C8_Emphasized(paragraph) == paragraph.alignment = "CENTER" /\ paragraph.size = 75
C8_Plain(paragraph) == paragraph.alignment = None /\ paragraph.size = 0

\* C8: a paragraph is emphasized (centered, 75pt) iff its slide has no image
\* atom and exactly one text atom; a slide that is one text atom becomes one
\* text column filling the slide inside the margins with that one emphasized
\* paragraph.
C8_TitleEmphasisIffLoneText ==
    \A k \in 1..Complete :
        LET slide == slides[prs[k].source]
            lone == ImagePositions(slide) = {} /\ Cardinality(TextPositions(slide)) = 1
        IN  /\ \A c \in DOMAIN prs[k].textboxes :
                \A j \in DOMAIN prs[k].textboxes[c].paragraphs :
                    LET paragraph == prs[k].textboxes[c].paragraphs[j]
                    IN  IF lone THEN C8_Emphasized(paragraph) ELSE C8_Plain(paragraph)
            /\ lone =>
                  /\ prs[k].pictures = <<>>
                  /\ Len(prs[k].textboxes) = 1
                  /\ prs[k].textboxes[1].left = 25 /\ prs[k].textboxes[1].top = 25
                  /\ prs[k].textboxes[1].width = 950 /\ prs[k].textboxes[1].height = 700
                  /\ Len(prs[k].textboxes[1].paragraphs) = 1
                  /\ prs[k].textboxes[1].paragraphs[1].text = slide[1]

\* the slide that is one text of 75 characters, sent to the client
C8_Witness ==
    /\ pc = "done"
    /\ slides = << <<Str(75, "x")>> >>
    /\ Len(response.body) = 1
    /\ Len(response.body[1].textboxes) = 1
    /\ C8_Emphasized(response.body[1].textboxes[1].paragraphs[1])

\* C10: every text column lies inside the margins of the slide and has a
\* size that is not negative.
C10_TextColumnsInsideMargins ==
    \A k \in 1..Complete : \A c \in DOMAIN prs[k].textboxes :
        LET box == prs[k].textboxes[c]
        IN  /\ box.height >= 0
            /\ box.width >= 0
            /\ box.top >= 25
            /\ box.top + box.height <= 750 - 25
            /\ box.left >= 25
            /\ box.left + box.width <= 1000 - 25

\* the slides among the first n that are not degenerate
C3_Kept(n) == {i \in 1..n : ~Degenerate(slides[i])}

\* C3: a slide with no image and no text adds no output slide, every other
\* slide adds exactly one, in source order; the presentation sent holds as
\* many slides as there are slides that are not degenerate, none when the
\* selected element has no element child.
C3_DegenerateSlidesDropped ==
    /\ Len(prs) = Cardinality(C3_Kept(cur))
    /\ \A k \in DOMAIN prs : prs[k].source = Ascending(C3_Kept(cur))[k]
    /\ pc = "done" =>
          /\ cur = Len(slides)
          /\ response.body = prs
          /\ Len(response.body) = Cardinality(C3_Kept(Len(slides)))
          /\ (\A i \in DOMAIN doc.root.contents : doc.root.contents[i].name = None)
                 => response.body = <<>>

\* three slides, the second with neither image nor text: two output slides,
\* from the first and the third
C3_Witness ==
    /\ pc = "done"
    /\ Len(slides) = 3
    /\ slides[1] # <<>> /\ slides[2] = <<>> /\ slides[3] # <<>>
    /\ Len(response.body) = 2
    /\ response.body[1].source = 1
    /\ response.body[2].source = 3

\* C5: a selector that matches nothing ends the request with a ContentNotFound
\* condition and with nothing written to the client.
C5_ContentNotFoundSurfaced ==
    (pc = "failed" /\ ~doc.matched /\ error # "RequestException") =>
        (error = "ContentNotFound" /\ response = NoResponse)

\* p occurs in s
C4_Holds(s, p) == \E i \in 1..(Len(s) - Len(p) + 1) : SubSeq(s, i, i + Len(p) - 1) = p

\* html_to_slides has returned
C4_Extracted ==
    pc \in {"slides_to_pptx", "fill_slide", "respond", "done"}
        \/ (pc = "failed" /\ error = "ImageFetchError")

RECURSIVE C4_HasImage(_)
C4_HasImage(kids) ==
    \E i \in DOMAIN kids : kids[i].name = "img" \/ C4_HasImage(kids[i].contents)

C4_SlideElements == SelectSeq(doc.root.contents, LAMBDA node : node.name # None)

\* C4: a text fragment that begins, once trimmed, with "[if mso | IE]" gives
\* nothing in any branch: no atom holds the marker, and a slide element whose
\* only text is such fragments (and blanks) and that holds no image has no atom.
C4_MarkerFragmentsGiveNothing ==
    C4_Extracted =>
        \A k \in DOMAIN slides :
            LET strings == RecursiveStrings(C4_SlideElements[k].contents)
            IN  /\ \A a \in DOMAIN slides[k] : ~C4_Holds(slides[k][a], MSO_MARKER)
                /\ ((\A i \in DOMAIN strings :
                         Strip(strings[i]) = <<>> \/ StartsWith(Strip(strings[i]), MSO_MARKER))
                    /\ ~C4_HasImage(C4_SlideElements[k].contents))
                       => slides[k] = <<>>

\* what the claim gives for one child, and for a list of children
C9_Survives(s) == Strip(s) # <<>> /\ ~StartsWith(Strip(s), MSO_MARKER)

C9_Surviving(strings) ==
    LET kept == SelectSeq(strings, C9_Survives)
    IN  [i \in DOMAIN kept |-> Strip(kept[i])]

C9_RichInline(c) ==
    \E i \in DOMAIN c.contents :
        c.contents[i].name = None /\ C9_Survives(c.contents[i].text)

C9_Mixed(c) == c.name # None /\ c.name # "img" /\ TagString(c) = <<>>

C9_AtomsOf(c) ==
    IF ~C9_Mixed(c) THEN ChildData(c)
    ELSE IF C9_RichInline(c) THEN <<Join(C9_Surviving(RecursiveStrings(c.contents)))>>
    ELSE parse_tag_contents(c)

RECURSIVE C9_Spliced(_)
C9_Spliced(kids) ==
    IF kids = <<>> THEN <<>> ELSE C9_AtomsOf(Head(kids)) \o C9_Spliced(Tail(kids))

RECURSIVE C9_EveryLevel(_)
C9_EveryLevel(tag) ==
    /\ parse_tag_contents(tag) = C9_Spliced(tag.contents)
    /\ \A i \in DOMAIN tag.contents :
           (C9_Mixed(tag.contents[i]) /\ ~C9_RichInline(tag.contents[i]))
               => C9_EveryLevel(tag.contents[i])

\* C9: a child c that is neither an image nor a single-string element gives,
\* when a text node directly under it survives trimming and marker filtering,
\* the one atom made of all surviving text nodes of its subtree in document
\* order joined by single spaces, and nothing from its descendants; otherwise
\* it gives the atoms of the recursive call, at c's place in document order.
C9_RichInlineMergedElseRecursed ==
    C4_Extracted =>
        /\ Len(slides) = Len(C4_SlideElements)
        /\ \A k \in DOMAIN slides :
              /\ slides[k] = C9_Spliced(C4_SlideElements[k].contents)
              /\ C9_EveryLevel(C4_SlideElements[k])

\* the child <b>Hello</b> world: one atom "Hello world"
C9_Witness ==
    /\ C4_Extracted
    /\ Len(C4_SlideElements) = 1
    /\ C4_SlideElements[1].contents =
           <<Tag("div", <<Tag("div", <<StringNode(HELLO)>>), StringNode(WORLD)>>)>>
    /\ slides = << <<HELLO \o <<" ", "w", "o", "r", "l", "d">> >> >>

====
